---- MODULE Spec2Model ----
(***************************************************************************)
(* A model of git-ls (src/main.go): the argument loop and the call         *)
(* sequence of main, the aggregators, the diff-graph renderer, the width   *)
(* model, the hyperlink encoder, the issue linkifier and the table         *)
(* renderer.                                                               *)
(*                                                                         *)
(* A Go string is modelled as a sequence of one-character strings.  The    *)
(* bytes that have no printable form are the tokens ESC (0x1b), NUL (0x00),*)
(* "\n" and "\t".                                                          *)
(***************************************************************************)
EXTENDS Integers, Sequences, FiniteSets, TLC

VARIABLES
    pc,         \* main: the program point
    argv,       \* main: the arguments still to be processed (os.Args[1:])
    diffWidth,  \* main: the diff-graph width
    dir,        \* main: the report directory
    files,      \* main / show: the entries ([]*File)
    maxWidth,   \* main / show: the terminal column count
    githubUrl,  \* main / show: the hosting base URL ("" when no remote matched)
    stdout,     \* everything written to os.Stdout
    out,        \* show: everything written to the writer `out` when it is not os.Stdout
    rows,       \* show: per emitted row, what the iteration wrote and where it stopped
    inp,        \* the input of the function under check (function-level specifications)
    res         \* its result

vars == <<pc, argv, diffWidth, dir, files, maxWidth, githubUrl, stdout, out, rows, inp, res>>

mainVars == <<pc, argv, diffWidth, dir, files, maxWidth, githubUrl, stdout, out, rows>>

----------------------------------------------------------------------------
(* Strings *)

ESC == "ESC"
NUL == "NUL"

Digits == {"0", "1", "2", "3", "4", "5", "6", "7", "8", "9"}

\* the bytes 0x40..0x5a
UpperAt == {"@", "A", "B", "C", "D", "E", "F", "G", "H", "I", "J", "K", "L", "M",
            "N", "O", "P", "Q", "R", "S", "T", "U", "V", "W", "X", "Y", "Z"}

\* the bytes 0x61..0x7a
Lower == {"a", "b", "c", "d", "e", "f", "g", "h", "i", "j", "k", "l", "m",
          "n", "o", "p", "q", "r", "s", "t", "u", "v", "w", "x", "y", "z"}

Min(a, b) == IF a < b THEN a ELSE b

IntAbs(a) == IF a < 0 THEN 0 - a ELSE a

\* Go's integer division truncates toward zero (b # 0)
GoDiv(a, b) ==
    LET q == IntAbs(a) \div IntAbs(b)
    IN  IF (a < 0) # (b < 0) THEN 0 - q ELSE q

\* strings.Repeat(c, n) for n >= 0 (it panics for n < 0)
Repeat(c, n) == [i \in 1..n |-> c]

\* s[from:to] of Go, 0-based and half-open
Slice(s, from, to) == SubSeq(s, from + 1, to)

CountOf(s, c) == Cardinality({i \in 1..Len(s) : s[i] = c})

RECURSIVE Concat(_)
Concat(ss) == IF ss = <<>> THEN <<>> ELSE Head(ss) \o Concat(Tail(ss))


\* the characters of the model in the order of their byte values
AsciiOrder ==
    <<NUL, "\t", "\n", ESC, " ", "!", "\"", "#", "(", ")", "*", "+", ",", "-", ".", "/",
      "0", "1", "2", "3", "4", "5", "6", "7", "8", "9", ":", ";", "=", ">", "?", "@",
      "A", "B", "C", "D", "E", "F", "G", "H", "I", "J", "K", "L", "M",
      "N", "O", "P", "Q", "R", "S", "T", "U", "V", "W", "X", "Y", "Z",
      "[", "\\", "]", "_",
      "a", "b", "c", "d", "e", "f", "g", "h", "i", "j", "k", "l", "m",
      "n", "o", "p", "q", "r", "s", "t", "u", "v", "w", "x", "y", "z">>

CharCode(c) == CHOOSE i \in 1..Len(AsciiOrder) : AsciiOrder[i] = c

\* a < b for Go strings: byte-wise lexicographic
RECURSIVE StrLess(_, _)
StrLess(a, b) ==
    IF b = <<>> THEN FALSE
    ELSE IF a = <<>> THEN TRUE
    ELSE IF Head(a) = Head(b) THEN StrLess(Tail(a), Tail(b))
    ELSE CharCode(Head(a)) < CharCode(Head(b))

HasPrefix(s, prefix) ==
    Len(s) >= Len(prefix) /\ SubSeq(s, 1, Len(prefix)) = prefix

Contains(s, c) == \E i \in 1..Len(s) : s[i] = c

\* the 1-based index of the first c in s, 0 when there is none
IndexOf(s, c) ==
    IF Contains(s, c)
    THEN CHOOSE i \in 1..Len(s) : s[i] = c /\ \A j \in 1..(i - 1) : s[j] # c
    ELSE 0

\* strings.Split(s, c) for a one-character separator
RECURSIVE Split(_, _)
Split(s, c) ==
    LET i == IndexOf(s, c)
    IN  IF i = 0 THEN <<s>>
        ELSE <<SubSeq(s, 1, i - 1)>> \o Split(SubSeq(s, i + 1, Len(s)), c)

\* strings.SplitN(s, c, n) for n > 0: at most n pieces, the last one unsplit
RECURSIVE SplitN(_, _, _)
SplitN(s, c, n) ==
    LET i == IndexOf(s, c)
    IN  IF n <= 1 \/ i = 0 THEN <<s>>
        ELSE <<SubSeq(s, 1, i - 1)>> \o SplitN(SubSeq(s, i + 1, Len(s)), c, n - 1)

\* strings.Join(ss, sep)
RECURSIVE Join(_, _)
Join(ss, sep) ==
    IF ss = <<>> THEN <<>>
    ELSE IF Len(ss) = 1 THEN ss[1]
    ELSE ss[1] \o sep \o Join(Tail(ss), sep)

WhiteSpace == {" ", "\t", "\n"}

\* strings.TrimSpace
TrimSpace(s) ==
    LET keep == {i \in 1..Len(s) : s[i] \notin WhiteSpace}
    IN  IF keep = {} THEN <<>>
        ELSE SubSeq(s, CHOOSE i \in keep : \A j \in keep : i <= j,
                       CHOOSE i \in keep : \A j \in keep : i >= j)

DigitSeq == <<"0", "1", "2", "3", "4", "5", "6", "7", "8", "9">>

DigitVal(c) == (CHOOSE i \in 1..10 : DigitSeq[i] = c) - 1

RECURSIVE DecVal(_)
DecVal(ds) ==
    IF ds = <<>> THEN 0 ELSE 10 * DecVal(SubSeq(ds, 1, Len(ds) - 1)) + DigitVal(ds[Len(ds)])

\* strconv.Atoi: an optional sign and at least one decimal digit
AtoiDigits(s) == IF s # <<>> /\ s[1] \in {"+", "-"} THEN Tail(s) ELSE s

AtoiOk(s) == AtoiDigits(s) # <<>> /\ \A i \in 1..Len(AtoiDigits(s)) : AtoiDigits(s)[i] \in Digits

Atoi(s) == IF s # <<>> /\ s[1] = "-" THEN 0 - DecVal(AtoiDigits(s)) ELSE DecVal(AtoiDigits(s))

----------------------------------------------------------------------------
(* Paths: path/filepath on a system whose separator is "/" *)

Str_dot == <<".">>
Str_dotdot == <<".", ".">>
Str_slash == <<"/">>

IsRooted(p) == p # <<>> /\ p[1] = "/"

\* the components Clean keeps, given those seen so far
RECURSIVE CleanComps(_, _, _)
CleanComps(todo, kept, rooted) ==
    IF todo = <<>> THEN kept
    ELSE LET c == Head(todo)
         IN  IF c = <<>> \/ c = Str_dot THEN CleanComps(Tail(todo), kept, rooted)
             ELSE IF c = Str_dotdot
             THEN IF kept # <<>> /\ kept[Len(kept)] # Str_dotdot
                  THEN CleanComps(Tail(todo), SubSeq(kept, 1, Len(kept) - 1), rooted)
                  ELSE IF rooted THEN CleanComps(Tail(todo), kept, rooted)
                  ELSE CleanComps(Tail(todo), Append(kept, c), rooted)
             ELSE CleanComps(Tail(todo), Append(kept, c), rooted)

PathComps(p) == CleanComps(Split(p, "/"), <<>>, IsRooted(p))

\* filepath.Clean
Clean(p) ==
    IF IsRooted(p) THEN Str_slash \o Join(PathComps(p), Str_slash)
    ELSE IF PathComps(p) = <<>> THEN Str_dot
    ELSE Join(PathComps(p), Str_slash)

\* filepath.Join(a, b)
PathJoin(a, b) ==
    IF a = <<>> THEN (IF b = <<>> THEN <<>> ELSE Clean(b))
    ELSE Clean(a \o Str_slash \o b)

\* the number of leading components base and targ share
RECURSIVE CommonLen(_, _)
CommonLen(bs, ts) ==
    IF bs = <<>> \/ ts = <<>> \/ Head(bs) # Head(ts) THEN 0
    ELSE 1 + CommonLen(Tail(bs), Tail(ts))

\* filepath.Rel fails when only one path is rooted, and when base must be left
\* through a ".." component
RelFails(base, targ) ==
    LET bs == PathComps(base)
        ts == PathComps(targ)
        k  == CommonLen(bs, ts)
    IN  /\ Clean(base) # Clean(targ)
        /\ \/ IsRooted(base) # IsRooted(targ)
           \/ k < Len(bs) /\ bs[k + 1] = Str_dotdot

\* filepath.Rel(base, targ) when it does not fail
Rel(base, targ) ==
    LET bs == PathComps(base)
        ts == PathComps(targ)
        k  == CommonLen(bs, ts)
    IN  IF Clean(base) = Clean(targ) THEN Str_dot
        ELSE Join([i \in 1..(Len(bs) - k) |-> Str_dotdot] \o SubSeq(ts, k + 1, Len(ts)),
                  Str_slash)

----------------------------------------------------------------------------
(* Colours, main.go 39-45 *)

BLUE   == <<ESC, "[", "3", "4", "m">>
GREEN  == <<ESC, "[", "3", "2", "m">>
RED    == <<ESC, "[", "3", "1", "m">>
RESET  == <<ESC, "[", "0", "m">>
YELLOW == <<ESC, "[", "3", "3", "m">>

----------------------------------------------------------------------------
(* link, main.go 152-155 *)

link(url, name) ==
    <<ESC, "]", "8", ";", ";">> \o url \o <<ESC, "\\">> \o name
        \o <<ESC, "]", "8", ";", ";", ESC, "\\">>

----------------------------------------------------------------------------
(* width, main.go 183-203 *)

\* one iteration of the loop over the characters: st = <<n, ansi>>
widthStep(st, c) ==
    IF c = ESC THEN <<st[1], TRUE>>
    ELSE IF st[2]
         THEN IF c \in UpperAt \/ c \in Lower THEN <<st[1], FALSE>> ELSE st
         ELSE <<st[1] + 1, FALSE>>

RECURSIVE widthFrom(_, _)
widthFrom(s, st) ==
    IF s = <<>> THEN st[1] ELSE widthFrom(Tail(s), widthStep(st, Head(s)))

width(s) == widthFrom(s, <<0, FALSE>>)

----------------------------------------------------------------------------
(* What a terminal shows: the reference the claims measure the output against *)

\* what a terminal shows of s: the text outside the escape sequences.  An OSC
\* sequence runs from ESC ] to ESC \, a CSI sequence from ESC [ to its final
\* letter.
\* the mode after the character c, and whether c is shown
VisibleStep(mode, c) ==
    CASE mode = "text" -> IF c = ESC THEN <<"esc", FALSE>> ELSE <<"text", TRUE>>
      [] mode = "esc" ->
            IF c = "]" THEN <<"osc", FALSE>>
            ELSE IF c = "[" THEN <<"csi", FALSE>>
            ELSE <<"text", FALSE>>
      [] mode = "osc" -> IF c = ESC THEN <<"oscEsc", FALSE>> ELSE <<"osc", FALSE>>
      [] mode = "oscEsc" ->
            IF c = "\\" THEN <<"text", FALSE>>
            ELSE IF c = ESC THEN <<"oscEsc", FALSE>>
            ELSE <<"osc", FALSE>>
      [] mode = "csi" ->
            IF c \in UpperAt \/ c \in Lower THEN <<"text", FALSE>> ELSE <<"csi", FALSE>>

\* <<the shown text of s[lo..hi] read from `mode`, the mode after it>>, by halves
RECURSIVE VisibleRange(_, _, _, _)
VisibleRange(s, lo, hi, mode) ==
    IF lo > hi THEN <<(<<>>), mode>>
    ELSE IF lo = hi
    THEN LET st == VisibleStep(mode, s[lo])
         IN  <<IF st[2] THEN <<s[lo]>> ELSE <<>>, st[1]>>
    ELSE LET mid == (lo + hi) \div 2
             l == VisibleRange(s, lo, mid, mode)
             r == VisibleRange(s, mid + 1, hi, l[2])
         IN  <<l[1] \o r[1], r[2]>>

Visible(s) == VisibleRange(s, 1, Len(s), "text")[1]

----------------------------------------------------------------------------
(* linkify, main.go 157-175 *)

\* issueRe.FindStringIndex for the pattern #(\d+): the leftmost "#" that a digit
\* follows, with every digit after it; <<start, end>> 0-based and half-open,
\* <<>> for nil
FindIssue(s) ==
    LET starts == {i \in 1..(Len(s) - 1) : s[i] = "#" /\ s[i + 1] \in Digits}
    IN  IF starts = {}
        THEN <<>>
        ELSE LET i == CHOOSE a \in starts : \A b \in starts : a <= b
                 j == CHOOSE k \in (i + 1)..Len(s) :
                        /\ \A m \in (i + 1)..k : s[m] \in Digits
                        /\ (k = Len(s) \/ s[k + 1] \notin Digits)
             IN  <<i - 1, j>>

Str_commit == <<"/", "c", "o", "m", "m", "i", "t", "/">>
Str_pull == <<"/", "p", "u", "l", "l", "/">>

commitUrl(github, hash) == github \o Str_commit \o hash

issueUrl_withHash(github, commitMsg, issueIx) ==
    github \o Str_pull \o Slice(commitMsg, issueIx[1], issueIx[2])

issueUrl(github, commitMsg, issueIx) ==
    github \o Str_pull \o Slice(commitMsg, issueIx[1] + 1, issueIx[2])

issueText_noHash(commitMsg, issueIx) ==
    BLUE \o Slice(commitMsg, issueIx[1] + 1, issueIx[2]) \o RESET

issueText(commitMsg, issueIx) ==
    BLUE \o Slice(commitMsg, issueIx[1], issueIx[2]) \o RESET

RECURSIVE linkify(_, _, _)
linkify(commitMsg, github, hash) ==
    LET issueIx == FindIssue(commitMsg)
    IN  IF issueIx = <<>>
        THEN link(commitUrl(github, hash), commitMsg)
        ELSE link(commitUrl(github, hash), Slice(commitMsg, 0, issueIx[1]))
                \o link(issueUrl(github, commitMsg, issueIx), issueText(commitMsg, issueIx))
                \o linkify(Slice(commitMsg, issueIx[2], Len(commitMsg)), github, hash)

----------------------------------------------------------------------------
(* Entries: the File struct, main.go 25-37.  diffSum is <<>> for nil and       *)
(* <<plus, minus>> otherwise.                                                  *)

NewFile(name, isDir, isExe) ==
    [name |-> name, status |-> <<>>, diffSum |-> <<>>, diffStat |-> <<>>,
     author |-> <<>>, authorEmail |-> <<>>, hash |-> <<>>, lastModified |-> <<>>,
     message |-> <<>>, isDir |-> isDir, isExe |-> isExe]

\* the failure of an external command or system call, where a call returns text
ExecFail == <<"EXECFAIL">>

----------------------------------------------------------------------------
(* first, main.go 459-465 *)

first_whole(path) == path

first(path) ==
    LET i == IndexOf(path, "/")
    IN  IF i = 0 THEN path ELSE SubSeq(path, 1, i - 1)

----------------------------------------------------------------------------
(* isGithub, main.go 355-362 *)

WordChars == Lower \cup (UpperAt \ {"@"}) \cup Digits \cup {"_", "-"}

Str_github == <<"g", "i", "t", "h", "u", "b">>
Str_com == <<"c", "o", "m">>
Str_https_github == <<"h", "t", "t", "p", "s", ":", "/", "/", "g", "i", "t", "h", "u", "b",
                      ".", "c", "o", "m", "/">>

\* the end of the longest run of word characters that starts at i (i - 1 when none)
WordRunEnd(s, i) ==
    CHOOSE k \in (i - 1)..Len(s) :
        /\ \A m \in i..k : s[m] \in WordChars
        /\ (k = Len(s) \/ s[k + 1] \notin WordChars)

\* github.com[:/]([\w-_]+)/([\w-_]+) matches at i ("." is any character but "\n")
GithubMatchAt(s, i) ==
    /\ i + 10 <= Len(s)
    /\ SubSeq(s, i, i + 5) = Str_github
    /\ s[i + 6] # "\n"
    /\ SubSeq(s, i + 7, i + 9) = Str_com
    /\ s[i + 10] \in {":", "/"}
    /\ WordRunEnd(s, i + 11) >= i + 11
    /\ WordRunEnd(s, i + 11) < Len(s)
    /\ s[WordRunEnd(s, i + 11) + 1] = "/"
    /\ WordRunEnd(s, WordRunEnd(s, i + 11) + 2) >= WordRunEnd(s, i + 11) + 2

isGithub(remotes) ==
    LET at == {i \in 1..Len(remotes) : GithubMatchAt(remotes, i)}
    IN  IF at = {} THEN <<>>
        ELSE LET i  == CHOOSE a \in at : \A b \in at : a <= b
                 oe == WordRunEnd(remotes, i + 11)
                 re == WordRunEnd(remotes, oe + 2)
             IN  Str_https_github \o SubSeq(remotes, i + 11, oe) \o Str_slash
                    \o SubSeq(remotes, oe + 2, re)

----------------------------------------------------------------------------
(* fileStatus, main.go 394-423 *)

Str_git == <<".", "g", "i", "t">>
Str_ignored == <<"!", "!">>

statusCode_verbatim(line) == SubSeq(line, 1, 2)

statusCode(line) ==
    IF SubSeq(line, 1, 2) = Str_ignored THEN <<"I">> ELSE SubSeq(line, 1, 2)

statusPath(line) == SubSeq(line, 4, Len(line))

\* must(filepath.Rel(curdir, line[3:])) is fatal for some line
fileStatusFatal(status, curdir) ==
    \E i \in 1..Len(Split(status, "\n")) :
        LET line == Split(status, "\n")[i]
        IN  Len(line) >= 3 /\ RelFails(curdir, statusPath(line))

\* gitStatusMap[name]: the codes of the lines whose key is name, in line order
RECURSIVE gitStatusMap(_, _, _)
gitStatusMap(lines, curdir, name) ==
    IF lines = <<>> THEN <<>>
    ELSE LET line == Head(lines)
         IN  IF Len(line) >= 3 /\ first(Rel(curdir, statusPath(line))) = name
             THEN <<statusCode(line)>> \o gitStatusMap(Tail(lines), curdir, name)
             ELSE gitStatusMap(Tail(lines), curdir, name)

RECURSIVE InsertSorted(_, _)
InsertSorted(x, sorted) ==
    IF sorted = <<>> THEN <<x>>
    ELSE IF StrLess(Head(sorted), x) THEN <<Head(sorted)>> \o InsertSorted(x, Tail(sorted))
    ELSE <<x>> \o sorted

SortStrings_none(ss) == ss

\* slices.Sort on strings
RECURSIVE SortStrings(_)
SortStrings(ss) ==
    IF ss = <<>> THEN <<>> ELSE InsertSorted(Head(ss), SortStrings(Tail(ss)))

\* slices.Compact: runs of equal elements become one
RECURSIVE Compact(_)
Compact(ss) ==
    IF Len(ss) <= 1 THEN ss
    ELSE IF ss[1] = ss[2] THEN Compact(Tail(ss))
    ELSE <<ss[1]>> \o Compact(Tail(ss))

fileStatusOf(file, status, curdir) ==
    LET codes == gitStatusMap(Split(status, "\n"), curdir, file.name)
    IN  IF file.name = Str_git THEN <<"*">>
        ELSE IF codes # <<>> THEN Join(Compact(SortStrings(codes)), <<",">>)
        ELSE file.status

fileStatus_fresh(status, fs, curdir) ==
    [i \in 1..Len(fs) |->
        [NewFile(fs[i].name, fs[i].isDir, fs[i].isExe) EXCEPT
            !.status = fileStatusOf(fs[i], status, curdir)]]

fileStatus(status, fs, curdir) ==
    [i \in 1..Len(fs) |-> [fs[i] EXCEPT !.status = fileStatusOf(fs[i], status, curdir)]]

----------------------------------------------------------------------------
(* parseGitLog, main.go 435-454; logs[i] is what gitLog returns for entry i *)

logParts_all(record) == Split(record, NUL)

logParts(record) == SplitN(record, NUL, 5)

parseGitLogFatal(fs, logs) ==
    \E i \in 1..Len(fs) : logs[i] # <<>> /\ Len(logParts(logs[i])) # 5

parseGitLogOf_swapped(file, record) ==
    IF Len(record) = 0 THEN file
    ELSE [file EXCEPT !.hash = logParts(record)[1],
                      !.lastModified = logParts(record)[2],
                      !.author = logParts(record)[4],
                      !.authorEmail = logParts(record)[3],
                      !.message = logParts(record)[5]]

parseGitLogOf(file, record) ==
    IF Len(record) = 0 THEN file
    ELSE [file EXCEPT !.hash = logParts(record)[1],
                      !.lastModified = logParts(record)[2],
                      !.author = logParts(record)[3],
                      !.authorEmail = logParts(record)[4],
                      !.message = logParts(record)[5]]

parseGitLog(fs, logs) == [i \in 1..Len(fs) |-> parseGitLogOf(fs[i], logs[i])]

----------------------------------------------------------------------------
(* diffInt and parseDiffStat, main.go 470-476 and 487-516 *)

diffInt(s) == IF AtoiOk(s) THEN Atoi(s) ELSE 0

diffLines(diffStat) == Split(TrimSpace(diffStat), "\n")

\* diffStats[name]: the Diff{plus, minus} of the lines whose key is name
RECURSIVE diffStats(_, _)
diffStats(lines, name) ==
    IF lines = <<>> THEN <<>>
    ELSE LET parts == Split(Head(lines), "\t")
         IN  IF Len(parts) >= 3 /\ first(TrimSpace(parts[3])) = name
             THEN <<(<<diffInt(parts[1]), diffInt(parts[2])>>)>> \o diffStats(Tail(lines), name)
             ELSE diffStats(Tail(lines), name)

RECURSIVE SumOf(_, _)
SumOf(stats, k) == IF stats = <<>> THEN 0 ELSE Head(stats)[k] + SumOf(Tail(stats), k)

diffSumOf(file, diffStat) ==
    LET stats == diffStats(diffLines(diffStat), file.name)
    IN  IF stats # <<>> THEN <<SumOf(stats, 1), SumOf(stats, 2)>> ELSE file.diffSum

parseDiffStat(diffStat, fs) ==
    [i \in 1..Len(fs) |-> [fs[i] EXCEPT !.diffSum = diffSumOf(fs[i], diffStat)]]

----------------------------------------------------------------------------
(* scale_linear and makeDiffGraph, main.go 220-255 *)

scale_linear_fullWidth(n, w, max_change) ==
    IF n = 0 THEN 0 ELSE 1 + GoDiv(n * w, max_change)

scale_linear(n, w, max_change) ==
    IF n = 0 THEN 0 ELSE 1 + GoDiv(n * (w - 1), max_change)

\* the number of "+" and of "-" glyphs makeDiffGraph asks strings.Repeat for
graphCounts(file, w) ==
    LET plus  == file.diffSum[1]
        minus == file.diffSum[2]
    IN  IF plus + minus <= w
        THEN <<plus, plus>>
        ELSE <<scale_linear(plus, w, plus + minus),
               scale_linear(minus, w, plus + minus)>>

\* strings.Repeat panics on a negative count, the division on a zero divisor
makeDiffGraphPanics(file, w) ==
    /\ file.diffSum # <<>>
    /\ LET plus  == file.diffSum[1]
           minus == file.diffSum[2]
       IN  \/ plus + minus > w /\ plus + minus = 0 /\ (plus # 0 \/ minus # 0)
           \/ /\ ~(plus + minus > w /\ plus + minus = 0)
              /\ (graphCounts(file, w)[1] < 0 \/ graphCounts(file, w)[2] < 0)

makeDiffGraph(file, w) ==
    IF file.diffSum = <<>>
    THEN <<>>
    ELSE GREEN \o Repeat("+", graphCounts(file, w)[1])
            \o RED \o Repeat("-", graphCounts(file, w)[2]) \o RESET

----------------------------------------------------------------------------
(* show, main.go 257-344 *)

DiffColumnWidth == 5   \* main.go 287: lineWidth += 5

Str_file == <<"f", "i", "l", "e", ":", "/", "/">>
Str_commits_author == <<"/", "c", "o", "m", "m", "i", "t", "s", "?", "a", "u", "t", "h", "o", "r", "=">>

MaxOf(S) == IF S = {} THEN 0 ELSE CHOOSE m \in S : \A x \in S : x <= m

\* the first pass, main.go 258-271
maxStatusOf(fs) == MaxOf({Len(fs[i].status) : i \in 1..Len(fs)})
maxDiffStatOf(fs) == MaxOf({width(fs[i].diffStat) : i \in 1..Len(fs)})
maxNameLenOf(fs) == MaxOf({Len(fs[i].name) : i \in 1..Len(fs)})

\* main.go 278-288: the status right-aligned to maxStatus, a space, the diff graph
\* and maxDiffStat - width(diffStat) + 1 spaces
statusCol(file, maxStatus, maxDiffStat) ==
    IF maxStatus > 0
    THEN Repeat(" ", maxStatus - Len(file.status)) \o file.status \o <<" ">>
            \o file.diffStat \o Repeat(" ", maxDiffStat - width(file.diffStat) + 1)
    ELSE <<>>

\* what main.go 280 and 287 add to lineWidth
statusLineWidth(maxStatus) ==
    IF maxStatus > 0 THEN (maxStatus + 1) + DiffColumnWidth ELSE 0

fileUrl(file, d, hostname) == Str_file \o hostname \o PathJoin(d, file.name)

\* main.go 290-305
nameCol(file, maxNameLen, d, hostname) ==
    (IF file.isDir THEN BLUE ELSE <<>>)
        \o (IF file.isExe THEN GREEN ELSE <<>>)
        \o link(fileUrl(file, d, hostname), file.name)
        \o Repeat(" ", maxNameLen - Len(file.name))
        \o (IF file.isDir \/ file.isExe THEN RESET ELSE <<>>)

\* main.go 309
dateCol(file) == <<" ">> \o file.lastModified

\* lineWidth at the first cutoff check, main.go 312
lineWidthAtDate(file, maxStatus, maxNameLen) ==
    statusLineWidth(maxStatus) + maxNameLen + (Len(file.lastModified) + 1)

\* the first cutoff check, main.go 312
cutAtDate(lineWidth, maxW) == lineWidth >= maxW

\* main.go 316
authorWidth(file, maxW, lineWidth) == Min(Len(file.author), maxW - 1 - lineWidth)

authorLink(github, file) == github \o Str_commits_author \o file.authorEmail

authorCol_alwaysLink(file, aw, github) ==
    <<" ">> \o YELLOW \o link(authorLink(github, file), Slice(file.author, 0, aw)) \o RESET

\* main.go 318-327
authorCol(file, aw, github) ==
    <<" ">> \o YELLOW
        \o (IF Len(github) > 0
            THEN link(authorLink(github, file), Slice(file.author, 0, aw))
            ELSE Slice(file.author, 0, aw))
        \o RESET

\* the second cutoff check, main.go 333
cutAtAuthor(lineWidth, maxW) == lineWidth >= maxW

\* main.go 337
messageWidth(file, maxW, lineWidth) == Min(Len(file.message), maxW - 1 - lineWidth)

\* main.go 338-342
messageCol(file, mw, github) ==
    <<" ">>
        \o (IF Len(github) > 0
            THEN linkify(Slice(file.message, 0, mw), github, file.hash)
            ELSE Slice(file.message, 0, mw))
        \o <<"\n">>

\* one iteration of the second loop, main.go 273-343, when os.Hostname succeeds:
\* toOut is what it writes to `out`, toStdout what fmt.Println writes to
\* os.Stdout, cut the check that ended the row (0 when none did), lw1 and lw2
\* lineWidth at the two checks, pre1 and pre2 what `out` got before each
showRow(file, fs, maxW, github, d, hostname) ==
    LET pre1 == statusCol(file, maxStatusOf(fs), maxDiffStatOf(fs))
                    \o nameCol(file, maxNameLenOf(fs), d, hostname)
                    \o dateCol(file)
        lw1  == lineWidthAtDate(file, maxStatusOf(fs), maxNameLenOf(fs))
        aw   == authorWidth(file, maxW, lw1)
        lw2  == lw1 + (aw + 1)
        pre2 == pre1 \o authorCol(file, aw, github)
        mw   == messageWidth(file, maxW, lw2)
    IN  IF cutAtDate(lw1, maxW)
        THEN [toOut |-> pre1, toStdout |-> <<"\n">>, cut |-> 1,
              lw1 |-> lw1, lw2 |-> lw1, pre1 |-> pre1, pre2 |-> pre1]
        ELSE IF cutAtAuthor(lw2, maxW)
        THEN [toOut |-> pre2, toStdout |-> <<"\n">>, cut |-> 2,
              lw1 |-> lw1, lw2 |-> lw2, pre1 |-> pre1, pre2 |-> pre2]
        ELSE [toOut |-> pre2 \o messageCol(file, mw, github), toStdout |-> <<>>, cut |-> 0,
              lw1 |-> lw1, lw2 |-> lw2, pre1 |-> pre1, pre2 |-> pre2]

----------------------------------------------------------------------------
(* Bounds *)

MaxCount == 5   \* the largest added / removed total drawn
MaxGraphWidth == 5   \* the largest diff-graph width drawn
NegGraphWidth == 1   \* the graph widths drawn start at -NegGraphWidth
MaxUrlLen == 2   \* the longest URL drawn for link
MaxTextLen == 3   \* the longest display text drawn for link
MaxSubjectLen == 4   \* the longest commit subject drawn for linkify

\* every string of at most n characters of the alphabet
Strs(alphabet, n) == UNION {[1..k -> alphabet] : k \in 0..n}

----------------------------------------------------------------------------
(* The state of main before it runs; the function-level specifications keep it *)

MainIdle ==
    /\ pc = "idle"
    /\ argv = <<>>
    /\ diffWidth = 4
    /\ dir = <<>>
    /\ files = <<>>
    /\ maxWidth = 0
    /\ githubUrl = <<>>
    /\ stdout = <<>>
    /\ out = <<>>
    /\ rows = <<>>

NoResult == [fn |-> "none"]

----------------------------------------------------------------------------
(* main, main.go 82-150 *)

DefaultDiffWidth == 4   \* main.go 84

VERSION == <<"3", ".", "2", ".", "0">>

Str_version == <<"-", "-", "v", "e", "r", "s", "i", "o", "n">>
Str_help == <<"-", "-", "h", "e", "l", "p">>
Str_h == <<"-", "h">>
Str_diffWidth == <<"-", "-", "d", "i", "f", "f", "W", "i", "d", "t", "h">>
Str_diffWidth_eq_2 == <<"-", "-", "d", "i", "f", "f", "W", "i", "d", "t", "h", "=", "2">>
Str_7 == <<"7">>
Str_d == <<"d">>
Str_a == <<"a">>
Str_b == <<"b">>
Str_OnBranch == <<"O", "n", " ", "b", "r", "a", "n", "c", "h", " ">>
Str_cwd == <<"/", "r">>

\* the text usage prints, main.go 55-79: the fixed text (one token) and the link
Str_repoUrl == <<"h", "t", "t", "p", "s", ":", "/", "/", "g", "i", "t", "h", "u", "b", ".", "c", "o", "m", "/", "l", "l", "i", "m", "l", "l", "i", "b", "/", "g", "i", "t", "-", "l", "s">>
usageText == <<"GIT-LS(1) ...">> \o link(Str_repoUrl, Str_repoUrl) \o <<"\n">>

\* filepath.Abs in the working directory Str_cwd
Abs(p) == IF IsRooted(p) THEN Clean(p) ELSE PathJoin(Str_cwd, p)

MaxArgs == 3   \* the longest argument vector drawn

ArgTokens == {Str_version, Str_help, Str_h, Str_diffWidth, Str_diffWidth_eq_2, Str_7, Str_d}

ArgVectors == Strs(ArgTokens, MaxArgs)

\* what the collaborators of one run may return
Listings ==
    {<<>>,
     <<NewFile(Str_a, FALSE, TRUE)>>,
     <<NewFile(Str_git, TRUE, FALSE), NewFile(Str_d, TRUE, FALSE)>>}
Roots == {Str_cwd}
StatusTexts == {<<>>, <<" ", "M", " ", "a", "\n", "?", "?", " ", "d", "/", "\n">>}
LogRecords == {<<>>, <<"1", "2", NUL, "D", "1", NUL, "A", "l", NUL, "e", NUL, "f", "#", "1">>, <<"x", NUL, "y">>}
DiffTexts == {<<>>, <<"2", "\t", "1", "\t", "a", "\n", "3", "\t", "3", "\t", "d", "/", "x", "\n">>}
ColumnChoices == {0, 12, 40}
Branches == {<<"m">>}
RemoteTexts == {<<>>, <<"g", "i", "t", "h", "u", "b", ".", "c", "o", "m", ":", "u", "/", "r">>}
Hostnames == {<<"h">>}

Init ==
    /\ pc = "argtest"
    /\ argv \in ArgVectors
    /\ diffWidth = DefaultDiffWidth
    /\ dir = <<>>
    /\ files = <<>>
    /\ maxWidth = 0
    /\ githubUrl = <<>>
    /\ stdout = <<>>
    /\ out = <<>>
    /\ rows = <<>>
    /\ inp = [fn |-> "main", args |-> argv]
    /\ res = NoResult

\* main.go 85: the loop condition
ArgTest ==
    /\ pc = "argtest"
    /\ pc' = IF Len(argv) > 0 THEN "argbody" ELSE "seldir"
    /\ UNCHANGED <<argv, diffWidth, dir, files, maxWidth, githubUrl, stdout, out, rows, inp, res>>

\* main.go 86-89
ArgVersion ==
    /\ pc = "argbody"
    /\ argv[1] = Str_version
    /\ stdout' = stdout \o VERSION \o <<"\n">>
    /\ pc' = "exit0"
    /\ UNCHANGED <<argv, diffWidth, dir, files, maxWidth, githubUrl, out, rows, inp, res>>

\* main.go 90-93
ArgHelp ==
    /\ pc = "argbody"
    /\ argv[1] # Str_version
    /\ argv[1] = Str_help \/ argv[1] = Str_h
    /\ stdout' = stdout \o usageText
    /\ pc' = "exit0"
    /\ UNCHANGED <<argv, diffWidth, dir, files, maxWidth, githubUrl, out, rows, inp, res>>

IsDiffWidthArg(a) == HasPrefix(a, Str_diffWidth)

\* main.go 94-107: <<fatal, diffWidth, argv>> after the --diffWidth branch
diffWidthArg(av, dw) ==
    IF Len(av) = 1
    THEN IF Contains(av[1], "=")
         THEN LET parts == SplitN(av[1], "=", 2)
              IN  IF AtoiOk(parts[2])
                  THEN <<FALSE, Atoi(parts[2]), Tail(av)>>
                  ELSE <<TRUE, dw, av>>
         ELSE <<TRUE, dw, av>>
    ELSE IF AtoiOk(av[2])
         THEN <<FALSE, Atoi(av[2]), Tail(Tail(av))>>
         ELSE <<TRUE, dw, av>>

ArgDiffWidth ==
    /\ pc = "argbody"
    /\ argv[1] \notin {Str_version, Str_help, Str_h}
    /\ IsDiffWidthArg(argv[1])
    /\ \E r \in {diffWidthArg(argv, diffWidth)} :
           /\ pc' = IF r[1] THEN "fatal" ELSE "argtest"
           /\ diffWidth' = r[2]
           /\ argv' = r[3]
    /\ UNCHANGED <<dir, files, maxWidth, githubUrl, stdout, out, rows, inp, res>>

\* main.go 86-108 when no branch is taken: the body changes nothing
ArgOther ==
    /\ pc = "argbody"
    /\ argv[1] \notin {Str_version, Str_help, Str_h}
    /\ ~IsDiffWidthArg(argv[1])
    /\ pc' = "argtest"
    /\ UNCHANGED <<argv, diffWidth, dir, files, maxWidth, githubUrl, stdout, out, rows, inp, res>>

\* main.go 110-119
SelectDir ==
    /\ pc = "seldir"
    /\ IF Len(argv) > 1
       THEN \E chdirOk \in BOOLEAN :
                /\ dir' = argv[2]
                /\ pc' = IF chdirOk THEN "readdir" ELSE "fatal"
       ELSE /\ dir' = Str_dot
            /\ pc' = "readdir"
    /\ UNCHANGED <<argv, diffWidth, files, maxWidth, githubUrl, stdout, out, rows, inp, res>>

\* main.go 121-134
ReadDir ==
    /\ pc = "readdir"
    /\ \E readOk \in BOOLEAN, listing \in Listings :
        IF ~readOk
        THEN pc' = "fatal" /\ files' = files
        ELSE pc' = "status" /\ files' = listing
    /\ UNCHANGED <<argv, diffWidth, dir, maxWidth, githubUrl, stdout, out, rows, inp, res>>

\* main.go 136-138: gitRoot, the directory relative to it, gitStatus, fileStatus
FileStatus ==
    /\ pc = "status"
    /\ \E root \in Roots \cup {ExecFail}, status \in StatusTexts \cup {ExecFail} :
        IF root = ExecFail \/ status = ExecFail
        THEN pc' = "fatal" /\ files' = files
        ELSE LET curdir == Rel(root, Abs(Str_dot))
             IN  IF RelFails(root, Abs(Str_dot)) \/ fileStatusFatal(status, curdir)
                 THEN pc' = "fatal" /\ files' = files
                 ELSE pc' = "gitlog" /\ files' = fileStatus(status, files, curdir)
    /\ UNCHANGED <<argv, diffWidth, dir, maxWidth, githubUrl, stdout, out, rows, inp, res>>

\* main.go 139
ParseGitLog ==
    /\ pc = "gitlog"
    /\ \E logs \in [1..Len(files) -> LogRecords \cup {ExecFail}] :
        IF (\E i \in 1..Len(files) : logs[i] = ExecFail) \/ parseGitLogFatal(files, logs)
        THEN pc' = "fatal" /\ files' = files
        ELSE pc' = "diffstat" /\ files' = parseGitLog(files, logs)
    /\ UNCHANGED <<argv, diffWidth, dir, maxWidth, githubUrl, stdout, out, rows, inp, res>>

\* main.go 140
ParseDiffStat ==
    /\ pc = "diffstat"
    /\ \E diffStat \in DiffTexts \cup {ExecFail} :
        IF diffStat = ExecFail
        THEN pc' = "fatal" /\ files' = files
        ELSE pc' = "graph" /\ files' = parseDiffStat(diffStat, files)
    /\ UNCHANGED <<argv, diffWidth, dir, maxWidth, githubUrl, stdout, out, rows, inp, res>>

withDiffGraphs(fs, w) ==
    [i \in 1..Len(fs) |-> [fs[i] EXCEPT !.diffStat = makeDiffGraph(fs[i], w)]]

\* main.go 143-145
MakeDiffGraphs ==
    /\ pc = "graph"
    /\ IF \E i \in 1..Len(files) : makeDiffGraphPanics(files[i], diffWidth)
       THEN pc' = "panic" /\ files' = files
       ELSE pc' = "columns" /\ files' = withDiffGraphs(files, diffWidth)
    /\ UNCHANGED <<argv, diffWidth, dir, maxWidth, githubUrl, stdout, out, rows, inp, res>>

\* main.go 147
Columns ==
    /\ pc = "columns"
    /\ \E cols \in ColumnChoices : maxWidth' = cols
    /\ pc' = "branch"
    /\ UNCHANGED <<argv, diffWidth, dir, files, githubUrl, stdout, out, rows, inp, res>>

\* main.go 148
PrintBranch ==
    /\ pc = "branch"
    /\ \E branch \in Branches \cup {ExecFail} :
        IF branch = ExecFail
        THEN pc' = "fatal" /\ stdout' = stdout
        ELSE /\ pc' = "remotes"
             /\ stdout' = stdout \o Str_OnBranch \o RED \o branch \o RESET \o <<"\n", "\n">>
    /\ UNCHANGED <<argv, diffWidth, dir, files, maxWidth, githubUrl, out, rows, inp, res>>

\* main.go 149: the arguments of show
GitRemotes ==
    /\ pc = "remotes"
    /\ \E remotes \in RemoteTexts \cup {ExecFail} :
        IF remotes = ExecFail
        THEN pc' = "fatal" /\ githubUrl' = githubUrl
        ELSE pc' = "show" /\ githubUrl' = isGithub(remotes)
    /\ UNCHANGED <<argv, diffWidth, dir, files, maxWidth, stdout, out, rows, inp, res>>

\* main passes os.Stdout as `out`
OutIsStdout == inp.fn = "main"

Emit(toOut, toStdout) ==
    IF OutIsStdout
    THEN stdout' = stdout \o toOut \o toStdout /\ out' = out
    ELSE out' = out \o toOut /\ stdout' = stdout \o toStdout

\* main.go 273-343: the iteration for the next entry
ShowRow ==
    /\ pc = "show"
    /\ Len(rows) < Len(files)
    /\ \E hostname \in Hostnames :
        \E r \in {showRow(files[Len(rows) + 1], files, maxWidth, githubUrl, Abs(dir), hostname)} :
            /\ Emit(r.toOut, r.toStdout)
            /\ rows' = Append(rows, r)
    /\ UNCHANGED <<pc, argv, diffWidth, dir, files, maxWidth, githubUrl, inp, res>>

\* main.go 278-297: must(os.Hostname()) fails after the status column was written
ShowHostnameFails ==
    /\ pc = "show"
    /\ Len(rows) < Len(files)
    /\ Emit(statusCol(files[Len(rows) + 1], maxStatusOf(files), maxDiffStatOf(files)), <<>>)
    /\ pc' = "fatal"
    /\ UNCHANGED <<argv, diffWidth, dir, files, maxWidth, githubUrl, rows, inp, res>>

\* main.go 344
ShowReturn ==
    /\ pc = "show"
    /\ Len(rows) = Len(files)
    /\ pc' = "done"
    /\ UNCHANGED <<argv, diffWidth, dir, files, maxWidth, githubUrl, stdout, out, rows, inp, res>>

Next ==
    \/ ArgTest
    \/ ArgVersion
    \/ ArgHelp
    \/ ArgDiffWidth
    \/ ArgOther
    \/ SelectDir
    \/ ReadDir
    \/ FileStatus
    \/ ParseGitLog
    \/ ParseDiffStat
    \/ MakeDiffGraphs
    \/ Columns
    \/ PrintBranch
    \/ GitRemotes
    \/ ShowRow
    \/ ShowHostnameFails
    \/ ShowReturn

Spec == Init /\ [][Next]_vars

\* the steps of main up to the listing of the directory
ArgSteps ==
    \/ ArgTest
    \/ ArgVersion
    \/ ArgHelp
    \/ ArgDiffWidth
    \/ ArgOther
    \/ SelectDir

\* the process is single-threaded and always takes its next step; stated for
\* the steps up to the listing
FairSpec == Spec /\ WF_vars(ArgSteps)

----------------------------------------------------------------------------
(* Claims about main *)

\* C3: main's argument loop terminates for every argument vector; with the one
\* argument <dir> the run reaches the listing of <dir>, with no argument the
\* listing of the current directory.
C3_ReachesListing ==
    /\ <>(pc \notin {"argtest", "argbody"})
    /\ [](inp.args = <<Str_d>> => <>(pc = "readdir" /\ dir = Str_d))
    /\ [](inp.args = <<>> => <>(pc = "readdir" /\ dir = Str_dot))

\* C5: when a collaborator call fails fatally, nothing has been written to
\* standard output before the abort.
C5_NoOutputBeforeFatal == pc = "fatal" => stdout = <<>>

\* C8: --diffWidth=<n> followed by further arguments sets the width to n and
\* leaves the remaining arguments to be processed, as --diffWidth <n> does.
C8_EqualsFormAnywhere ==
    [][(pc = "argbody" /\ argv[1] = Str_diffWidth_eq_2 /\ Len(argv) > 1)
            => (pc' = "argtest" /\ diffWidth' = 2 /\ argv' = Tail(argv))]_vars

----------------------------------------------------------------------------
(* show on its own, as its callers other than main call it: `out` is a buffer *)

MaxRows == 2   \* the most entries drawn for one report
MaxCols == 30   \* the widest terminal drawn

Str_ghUrl == <<"h", "t", "t", "p", "s", ":", "/", "/", "g", "i", "t", "h", "u", "b", ".", "c", "o", "m", "/", "u", "/", "r">>

\* entries as the aggregators leave them: an untracked file, a modified
\* executable, a modified directory, a clean tracked file
ShowEntries ==
    {NewFile(Str_a, FALSE, FALSE),
     [NewFile(<<"b", "b">>, FALSE, TRUE) EXCEPT
        !.status = <<"M", " ">>, !.diffSum = <<3, 3>>, !.hash = <<"1", "2">>,
        !.lastModified = <<"D", "1">>, !.author = <<"A", "l">>, !.authorEmail = <<"e">>,
        !.message = <<"f", "#", "1", "2">>],
     [NewFile(Str_d, TRUE, FALSE) EXCEPT
        !.status = <<" ", "M", ",", "?", "?">>, !.diffSum = <<2, 0>>, !.hash = <<"3", "4">>,
        !.lastModified = <<"D", "2">>, !.author = <<"B">>, !.authorEmail = <<"e">>,
        !.message = <<"x">>],
     [NewFile(<<"c">>, FALSE, FALSE) EXCEPT
        !.hash = <<"5", "6">>, !.lastModified = <<"D", "3">>, !.author = <<"A", "l">>,
        !.authorEmail = <<"e">>, !.message = <<"y", "y">>]}

\* a directory listing has no two entries of the same name
ShowReports ==
    {fs \in UNION {[1..k -> ShowEntries] : k \in 1..MaxRows} :
        \A i, j \in 1..Len(fs) : fs[i].name = fs[j].name => i = j}

ShowGraphWidths == {2, 4, 6}

InitShow ==
    /\ pc = "show"
    /\ argv = <<>>
    /\ diffWidth \in ShowGraphWidths
    /\ dir = Str_cwd
    /\ files \in {withDiffGraphs(fs, diffWidth) : fs \in ShowReports}
    /\ maxWidth \in 0..MaxCols
    /\ githubUrl \in {<<>>, Str_ghUrl}
    /\ stdout = <<>>
    /\ out = <<>>
    /\ rows = <<>>
    /\ inp = [fn |-> "show"]
    /\ res = NoResult

NextShow ==
    \/ ShowRow
    \/ ShowHostnameFails
    \/ ShowReturn

SpecShow == InitShow /\ [][NextShow]_vars

IsSuffix(suffix, s) ==
    Len(suffix) <= Len(s) /\ SubSeq(s, Len(s) - Len(suffix) + 1, Len(s)) = suffix

HasHistory(file) == file.hash # <<>>

\* the printable width of a row: what a terminal shows of it, without the line end
RowWidth(r) == Len(Visible(r.toOut)) - CountOf(r.toOut, "\n")

\* where an OSC8 hyperlink escape sequence starts in s
OSC8At(s) == {i \in 1..(Len(s) - 2) : s[i] = ESC /\ s[i + 1] = "]" /\ s[i + 2] = "8"}

\* C4: with a terminal column count of 0 no row is cut off: a row with commit
\* history ends with its full author and its full subject.
C4_NoCutoffWhenWidthUnknown ==
    \A i \in 1..Len(rows) :
        (maxWidth = 0 /\ HasHistory(files[i]))
            => /\ rows[i].cut = 0
               /\ IsSuffix(<<" ">> \o files[i].author \o <<" ">> \o files[i].message
                               \o <<"\n">>,
                           Visible(rows[i].toOut))

\* C6: for a terminal width W > 0, a row whose status, diff-graph, name and date
\* columns are narrower than W has a printable width of at most W.
C6_RowFitsTerminal ==
    \A i \in 1..Len(rows) :
        (maxWidth > 0 /\ Len(Visible(rows[i].pre1)) < maxWidth)
            => RowWidth(rows[i]) <= maxWidth

\* C9 as stated: with an empty hosting base URL the text show produces holds no
\* OSC8 hyperlink escape sequence.
C9_NoHyperlinkWithoutRemote ==
    githubUrl = <<>> => OSC8At(out) = {}

\* C9 as amended: with an empty hosting base URL the only hyperlink of a row is
\* the one around the entry name, to a file:// URL: its opening sequence and its
\* closing sequence are the only OSC8 sequences of the row, so the author and
\* the subject carry no link to the hosting service.
C9_OnlyFileLinkWithoutRemote ==
    githubUrl = <<>> =>
        \A i \in 1..Len(rows) :
            LET s  == rows[i].toOut
                at == OSC8At(s)
            IN  /\ Cardinality(at) = 2
                /\ \E j, k \in at :
                    /\ j < k
                    /\ SubSeq(s, j + 3, j + 4 + Len(Str_file)) = <<";", ";">> \o Str_file
                    /\ SubSeq(s, k + 3, k + 6) = <<";", ";", ESC, "\\">>

\* a row with its author and a subject holding an issue token was emitted in
\* full with an empty hosting base URL
C9_Witness ==
    /\ githubUrl = <<>>
    /\ \E i \in 1..Len(rows) :
        /\ rows[i].cut = 0
        /\ files[i].author # <<>>
        /\ FindIssue(files[i].message) # <<>>
        /\ IsSuffix(files[i].message \o <<"\n">>, rows[i].toOut)

----------------------------------------------------------------------------
(* makeDiffGraph on every diff total and every graph width *)

DiffSums == {<<>>} \cup ((0..MaxCount) \X (0..MaxCount))

InitGraph ==
    /\ MainIdle
    /\ inp \in [fn : {"makeDiffGraph"}, diffSum : DiffSums,
                width : (0 - NegGraphWidth)..MaxGraphWidth]
    /\ res = NoResult

ApplyMakeDiffGraph ==
    /\ inp.fn = "makeDiffGraph"
    /\ res = NoResult
    /\ res' = IF makeDiffGraphPanics(inp, inp.width)
              THEN [fn |-> "makeDiffGraph", panic |-> TRUE, s |-> <<>>]
              ELSE [fn |-> "makeDiffGraph", panic |-> FALSE,
                    s |-> makeDiffGraph(inp, inp.width)]
    /\ UNCHANGED <<mainVars, inp>>

NextGraph == ApplyMakeDiffGraph

SpecGraph == InitGraph /\ [][NextGraph]_vars

GraphDone == inp.fn = "makeDiffGraph" /\ res # NoResult

\* C1: when added + removed <= width, the graph is exactly `added` "+" glyphs
\* followed by exactly `removed` "-" glyphs (no scaling).
C1_UnscaledGraph ==
    (GraphDone /\ inp.diffSum # <<>> /\ inp.diffSum[1] + inp.diffSum[2] <= inp.width)
        => /\ ~res.panic
           /\ res.s = GREEN \o Repeat("+", inp.diffSum[1])
                          \o RED \o Repeat("-", inp.diffSum[2]) \o RESET

\* C7: when added + removed > width >= 0, a positive added count gives at least
\* one "+" glyph and a positive removed count at least one "-" glyph.
C7_AtLeastOneGlyph ==
    (GraphDone /\ inp.diffSum # <<>> /\ inp.width >= 0
        /\ inp.diffSum[1] + inp.diffSum[2] > inp.width)
        => /\ ~res.panic
           /\ (inp.diffSum[1] > 0 => CountOf(res.s, "+") >= 1)
           /\ (inp.diffSum[2] > 0 => CountOf(res.s, "-") >= 1)

----------------------------------------------------------------------------
(* width of link(url, text) on every URL and every display text *)

\* a letter, a digit and two punctuation characters of a URL
LinkAlphabet == {"a", "1", ":", "/"}

InitWidth ==
    /\ MainIdle
    /\ inp \in [fn : {"width"}, url : Strs(LinkAlphabet, MaxUrlLen),
                text : Strs(LinkAlphabet, MaxTextLen)]
    /\ res = NoResult

ApplyWidth ==
    /\ inp.fn = "width"
    /\ res = NoResult
    /\ res' = [fn |-> "width", linked |-> link(inp.url, inp.text),
               w |-> width(link(inp.url, inp.text))]
    /\ UNCHANGED <<mainVars, inp>>

NextWidth == ApplyWidth

SpecWidth == InitWidth /\ [][NextWidth]_vars

\* C2: the printable width of a string wrapped in the OSC8 hyperlink pair is
\* the printable width of the display text.
C2_LinkAddsNoWidth ==
    (inp.fn = "width" /\ res # NoResult) => res.w = width(inp.text)

----------------------------------------------------------------------------
(* linkify on every subject *)

SubjectAlphabet == {"a", "#", "1", ")"}

Str_gh == <<"h", ":", "/", "g">>
Str_hash1 == <<"1", "2", "3", "a", "b", "c">>

InitLinkify ==
    /\ MainIdle
    /\ inp \in [fn : {"linkify"}, subject : Strs(SubjectAlphabet, MaxSubjectLen),
                github : {<<>>, Str_gh}, hash : {<<>>, Str_hash1}]
    /\ res = NoResult

ApplyLinkify ==
    /\ inp.fn = "linkify"
    /\ res = NoResult
    /\ res' = [fn |-> "linkify", s |-> linkify(inp.subject, inp.github, inp.hash)]
    /\ UNCHANGED <<mainVars, inp>>

NextLinkify == ApplyLinkify

SpecLinkify == InitLinkify /\ [][NextLinkify]_vars

LinkifyDone == inp.fn = "linkify" /\ res # NoResult

\* C10: the text of linkify(subject, baseUrl, hash) outside its escape sequences
\* is exactly the subject.
C10_LinkifyKeepsVisibleText ==
    LinkifyDone => Visible(res.s) = inp.subject

\* a subject with two issue tokens has been linkified
C10_Witness ==
    /\ LinkifyDone
    /\ inp.subject = <<"#", "1", "#", "1">>
    /\ inp.github = Str_gh

----------------------------------------------------------------------------
(* fileStatus on every short sequence of status lines *)

MaxStatusLines == 3   \* the most status lines drawn

\* a line of `git status --porcelain --ignored`: a two-character code and the
\* components of a path from the repository root
StatusLineRecords ==
    [code : {<<"M", " ">>, <<" ", "M">>, Str_ignored},
     path : {<<Str_d, <<"x">>>>, <<Str_d, <<"y">>>>, <<Str_git, <<"x">>>>}]

\* the text git prints for the lines
StatusText(lines) ==
    Join([k \in 1..Len(lines) |->
            lines[k].code \o <<" ">> \o Join(lines[k].path, Str_slash)], <<"\n">>)

\* curdir as main computes it, from the components of the working directory
\* below the repository root
CurdirText(comps) == IF comps = <<>> THEN Str_dot ELSE Join(comps, Str_slash)

StatusEntries ==
    <<NewFile(Str_a, FALSE, FALSE), NewFile(Str_d, TRUE, FALSE),
      NewFile(<<"x">>, FALSE, FALSE), NewFile(Str_git, TRUE, FALSE)>>

InitStatus ==
    /\ MainIdle
    /\ inp \in [fn : {"fileStatus"},
                lines : UNION {[1..n -> StatusLineRecords] : n \in 0..MaxStatusLines},
                curdir : {<<>>, <<Str_d>>}]
    /\ res = NoResult

ApplyFileStatus ==
    /\ inp.fn = "fileStatus"
    /\ res = NoResult
    /\ res' = IF fileStatusFatal(StatusText(inp.lines), CurdirText(inp.curdir))
              THEN [fn |-> "fileStatus", fatal |-> TRUE, fs |-> <<>>]
              ELSE [fn |-> "fileStatus", fatal |-> FALSE,
                    fs |-> fileStatus(StatusText(inp.lines), StatusEntries,
                                      CurdirText(inp.curdir))]
    /\ UNCHANGED <<mainVars, inp>>

NextStatus == ApplyFileStatus

SpecStatus == InitStatus /\ [][NextStatus]_vars

StatusDone == inp.fn = "fileStatus" /\ res # NoResult

\* lines with the lines k and k + 1 exchanged
SwapAt(lines, k) ==
    [j \in 1..Len(lines) |->
        IF j = k THEN lines[k + 1] ELSE IF j = k + 1 THEN lines[k] ELSE lines[j]]

\* C11: fileStatus gives every entry the same status for any two orderings of
\* the same status lines (exchanging two neighbouring lines changes nothing,
\* for every sequence of lines), and the comma-separated codes of every status
\* are strictly ascending, so sorted and without duplicates.
C11_OrderIndependent ==
    StatusDone =>
        /\ ~res.fatal
        /\ \A k \in 1..(Len(inp.lines) - 1) :
                fileStatus(StatusText(SwapAt(inp.lines, k)), StatusEntries,
                           CurdirText(inp.curdir)) = res.fs
        /\ \A i \in 1..Len(res.fs) :
                LET codes == Split(res.fs[i].status, ",")
                IN  \A j \in 1..(Len(codes) - 1) : StrLess(codes[j], codes[j + 1])

\* three lines below one directory, given in descending order of their codes,
\* were aggregated into one status of three codes
C11_Witness ==
    /\ StatusDone
    /\ inp.curdir = <<>>
    /\ Len(inp.lines) = 3
    /\ inp.lines[1].code = <<"M", " ">>
    /\ inp.lines[2].code = Str_ignored
    /\ inp.lines[3].code = <<" ", "M">>
    /\ \A k \in 1..3 : inp.lines[k].path[1] = Str_d
    /\ res.fs[2].status = <<" ", "M", ",", "I", ",", "M", " ">>

\* the entry name a line counts for: the first component of its path below the
\* report directory, ".." when the path is not below it
StatusKey(path, comps) ==
    IF Len(path) > Len(comps) /\ SubSeq(path, 1, Len(comps)) = comps
    THEN path[Len(comps) + 1]
    ELSE Str_dotdot

\* the codes of the lines that count for the entry called name
StatusCodesFor(name) ==
    {IF inp.lines[k].code = Str_ignored THEN <<"I">> ELSE inp.lines[k].code :
        k \in {j \in 1..Len(inp.lines) : StatusKey(inp.lines[j].path, inp.curdir) = name}}

\* C16: after fileStatus the entry ".git" has status "*"; every other entry's
\* status joins with commas the codes of the lines whose path below the report
\* directory starts with the entry's name, "!!" read as "I"; an entry no line
\* matches keeps an empty status.
C16_StatusOfEntries ==
    StatusDone =>
        /\ ~res.fatal
        /\ \A i \in 1..Len(StatusEntries) :
                LET name   == StatusEntries[i].name
                    status == res.fs[i].status
                    codes  == Split(status, ",")
                IN  IF name = Str_git THEN status = <<"*">>
                    ELSE IF StatusCodesFor(name) = {} THEN status = <<>>
                    ELSE {codes[j] : j \in 1..Len(codes)} = StatusCodesFor(name)

\* in a subdirectory: an ignored file of it, a line of the .git directory and
\* another file of it were given; the entry "a" is matched by no line
C16_Witness ==
    /\ StatusDone
    /\ inp.curdir = <<Str_d>>
    /\ Len(inp.lines) = 3
    /\ inp.lines[1] = [code |-> Str_ignored, path |-> <<Str_d, <<"x">>>>]
    /\ inp.lines[2].path = <<Str_git, <<"x">>>>
    /\ inp.lines[3].path = <<Str_d, <<"y">>>>
    /\ res.fs[3].status = <<"I">>
    /\ res.fs[4].status = <<"*">>
    /\ res.fs[1].status = <<>>

----------------------------------------------------------------------------
(* parseDiffStat on every short sequence of diff lines *)

MaxDiffLines == 2   \* the most diff lines drawn

\* the decimal digits of n >= 0
RECURSIVE Itoa(_)
Itoa(n) ==
    IF n < 10 THEN <<DigitSeq[n + 1]>>
    ELSE Itoa(n \div 10) \o <<DigitSeq[(n % 10) + 1]>>

\* a count field of `git diff --numstat`: a number, the marker "-" of a binary
\* file, or a number with a minus sign
CountText(c) ==
    IF c.kind = "bin" THEN <<"-">>
    ELSE IF c.kind = "neg" THEN <<"-">> \o Itoa(c.n)
    ELSE Itoa(c.n)

\* a line of `git diff --numstat --relative`: two count fields and the
\* components of a path below the working directory
DiffLineRecords ==
    [plus  : {[kind |-> "num", n |-> 1], [kind |-> "num", n |-> 12],
              [kind |-> "bin", n |-> 0], [kind |-> "neg", n |-> 5]},
     minus : {[kind |-> "num", n |-> 0], [kind |-> "num", n |-> 3],
              [kind |-> "neg", n |-> 1]},
     path  : {<<Str_a>>, <<Str_d, <<"x">>>>, <<Str_d, <<"y">>>>}]

\* the text git prints for the lines, each ended by a line feed
DiffText(lines) ==
    Concat([k \in 1..Len(lines) |->
              CountText(lines[k].plus) \o <<"\t">> \o CountText(lines[k].minus)
                  \o <<"\t">> \o Join(lines[k].path, Str_slash) \o <<"\n">>])

DiffEntries ==
    <<NewFile(Str_a, FALSE, FALSE), NewFile(Str_d, TRUE, FALSE),
      NewFile(<<"c">>, FALSE, FALSE)>>

InitDiff ==
    /\ MainIdle
    /\ inp \in [fn : {"parseDiffStat"},
                lines : UNION {[1..n -> DiffLineRecords] : n \in 0..MaxDiffLines}]
    /\ res = NoResult

ApplyParseDiffStat ==
    /\ inp.fn = "parseDiffStat"
    /\ res = NoResult
    /\ res' = [fn |-> "parseDiffStat",
               fs |-> parseDiffStat(DiffText(inp.lines), DiffEntries)]
    /\ UNCHANGED <<mainVars, inp>>

NextDiff == ApplyParseDiffStat

SpecDiff == InitDiff /\ [][NextDiff]_vars

DiffDone == inp.fn = "parseDiffStat" /\ res # NoResult

\* the count a field stands for: its number, 0 for the marker of a binary file
CountOfField(c) == IF c.kind = "num" THEN c.n ELSE 0

\* the sums of the added and of the removed counts over the lines whose path
\* starts with name
RECURSIVE DiffTotals(_, _)
DiffTotals(lines, name) ==
    IF lines = <<>> THEN <<0, 0>>
    ELSE LET rest == DiffTotals(Tail(lines), name)
         IN  IF Head(lines).path[1] = name
             THEN <<CountOfField(Head(lines).plus) + rest[1],
                    CountOfField(Head(lines).minus) + rest[2]>>
             ELSE rest

\* C12: after parseDiffStat an entry whose name is the first path component of
\* at least one diff line has as totals the sums of the added and of the
\* removed counts over those lines; every other entry has no totals.
C12_ExactSums ==
    (DiffDone /\ \A k \in 1..Len(inp.lines) :
                    inp.lines[k].plus.kind # "neg" /\ inp.lines[k].minus.kind # "neg")
        => \A i \in 1..Len(DiffEntries) :
              IF \E k \in 1..Len(inp.lines) : inp.lines[k].path[1] = DiffEntries[i].name
              THEN res.fs[i].diffSum = DiffTotals(inp.lines, DiffEntries[i].name)
              ELSE res.fs[i].diffSum = <<>>

\* two lines of two files below the directory d were summed, and the entry c
\* has no line
C12_Witness ==
    /\ DiffDone
    /\ Len(inp.lines) = 2
    /\ inp.lines[1].path = <<Str_d, <<"x">>>>
    /\ inp.lines[2].path = <<Str_d, <<"y">>>>
    /\ res.fs[2].diffSum = <<13, 3>>
    /\ res.fs[1].diffSum = <<>>
    /\ res.fs[3].diffSum = <<>>

\* C14: after parseDiffStat the totals of an entry, when present, are not
\* negative: a count field that is no non-negative integer counts as 0.
C14_TotalsNotNegative ==
    DiffDone =>
        \A i \in 1..Len(res.fs) :
            res.fs[i].diffSum # <<>> => res.fs[i].diffSum[1] >= 0 /\ res.fs[i].diffSum[2] >= 0

----------------------------------------------------------------------------
(* parseGitLog on every short list of entries and their log records *)

MaxLogEntries == 3   \* the most entries drawn

\* what gitLog can return for an entry, as the fields its NULs delimit: nothing
\* (no history), the five fields of the format with three subjects, and
\* records of one, four and six fields
LogFieldLists ==
    {<<>>,
     <<<<"x">>>>,
     <<<<"h", "1">>, <<"D">>, <<"A", "n">>, <<"e">>>>,
     <<<<"h", "1">>, <<"D">>, <<"A", "n">>, <<"e">>, <<"s">>>>,
     <<<<"h", "1">>, <<"D">>, <<"A", "n">>, <<"e">>, <<"a", "|", "b">>>>,
     <<<<"h", "1">>, <<"D">>, <<"A", "n">>, <<"e">>, <<>>>>,
     <<<<"h", "1">>, <<"D">>, <<"A", "n">>, <<"e">>, <<"s">>, <<"t">>>>}

\* the bytes of a record
LogText(fields) == Join(fields, <<NUL>>)

LogEntries(n) == [i \in 1..n |-> NewFile(<<"f", DigitSeq[i + 1]>>, FALSE, FALSE)]

InitLog ==
    /\ MainIdle
    /\ inp \in [fn : {"parseGitLog"},
                logs : UNION {[1..n -> LogFieldLists] : n \in 0..MaxLogEntries}]
    /\ res = NoResult

ApplyParseGitLog ==
    /\ inp.fn = "parseGitLog"
    /\ res = NoResult
    /\ LET fs   == LogEntries(Len(inp.logs))
           logs == [i \in 1..Len(inp.logs) |-> LogText(inp.logs[i])]
       IN  res' = IF parseGitLogFatal(fs, logs)
                  THEN [fn |-> "parseGitLog", fatal |-> TRUE, fs |-> <<>>]
                  ELSE [fn |-> "parseGitLog", fatal |-> FALSE, fs |-> parseGitLog(fs, logs)]
    /\ UNCHANGED <<mainVars, inp>>

NextLog == ApplyParseGitLog

SpecLog == InitLog /\ [][NextLog]_vars

LogDone == inp.fn = "parseGitLog" /\ res # NoResult

\* C13 as stated: parseGitLog is fatal exactly when some non-empty record has a
\* number of NUL-delimited fields other than 5, fewer or more.
C13_FatalUnlessFiveFields ==
    LogDone =>
        (res.fatal <=> \E i \in 1..Len(inp.logs) :
                          inp.logs[i] # <<>> /\ Len(inp.logs[i]) # 5)

\* C13 as amended: parseGitLog is fatal exactly when some non-empty record has
\* fewer than 5 NUL-delimited fields; a record of more than 5 fields is
\* accepted, and what follows its fourth NUL is the subject.
C13_FatalWhenFewerThanFive ==
    LogDone =>
        /\ res.fatal <=> \E i \in 1..Len(inp.logs) :
                            inp.logs[i] # <<>> /\ Len(inp.logs[i]) < 5
        /\ ~res.fatal =>
                \A i \in 1..Len(inp.logs) :
                    Len(inp.logs[i]) > 5 =>
                        res.fs[i].message = Join(SubSeq(inp.logs[i], 5, Len(inp.logs[i])),
                                                 <<NUL>>)

\* a record of six fields was parsed without a fatal error
C13_Witness ==
    /\ LogDone
    /\ ~res.fatal
    /\ \E i \in 1..Len(inp.logs) :
          /\ Len(inp.logs[i]) = 6
          /\ res.fs[i].message = <<"s", NUL, "t">>

\* C17: parseGitLog sets hash, date, author name, author email and subject of
\* an entry to the five fields of its record in that order, the subject
\* verbatim; with an empty record the five stay empty, and the entries after it
\* are processed.
C17_FieldsInOrder ==
    (LogDone /\ ~res.fatal) =>
        \A i \in 1..Len(inp.logs) :
            LET f == res.fs[i]
                r == inp.logs[i]
            IN  /\ Len(r) = 5 =>
                      /\ f.hash = r[1]
                      /\ f.lastModified = r[2]
                      /\ f.author = r[3]
                      /\ f.authorEmail = r[4]
                      /\ f.message = r[5]
                /\ r = <<>> =>
                      /\ f.hash = <<>>
                      /\ f.lastModified = <<>>
                      /\ f.author = <<>>
                      /\ f.authorEmail = <<>>
                      /\ f.message = <<>>

\* an entry without history came first, and the entry after it got the subject
\* "a|b" of its record
C17_Witness ==
    /\ LogDone
    /\ ~res.fatal
    /\ Len(inp.logs) = 2
    /\ inp.logs[1] = <<>>
    /\ res.fs[1].hash = <<>>
    /\ res.fs[2].hash = <<"h", "1">>
    /\ res.fs[2].message = <<"a", "|", "b">>

----------------------------------------------------------------------------
(* isGithub on the text of `git remote -v` *)

MaxRemotes == 2   \* the most remotes drawn

Str_github_com == Str_github \o <<".">> \o Str_com

\* a remote: its host, the form of its URL, the owner and the repository
RemoteRecords ==
    [host  : {Str_github_com, <<"e", "x", ".", "o", "r", "g">>},
     form  : {"ssh", "https"},
     owner : {<<"u", "-", "1">>},
     repo  : {<<"r">>, <<"r", "_", "2">>, <<"r", ".", "j", "s">>}]

\* the URL of a remote, with the .git suffix
RemoteUrl(r) ==
    (IF r.form = "ssh"
     THEN <<"g", "i", "t", "@">> \o r.host \o <<":">>
     ELSE <<"h", "t", "t", "p", "s", ":", "/", "/">> \o r.host \o Str_slash)
        \o r.owner \o Str_slash \o r.repo \o Str_git

\* the text of `git remote -v`: a line for each remote
RemotesText(rs) ==
    Concat([k \in 1..Len(rs) |->
              <<"o", DigitSeq[k + 1], "\t">> \o RemoteUrl(rs[k])
                  \o <<" ", "(", "f", "e", "t", "c", "h", ")", "\n">>])

InitRemotes ==
    /\ MainIdle
    /\ inp \in [fn : {"isGithub"},
                remotes : UNION {[1..n -> RemoteRecords] : n \in 0..MaxRemotes}]
    /\ res = NoResult

ApplyIsGithub ==
    /\ inp.fn = "isGithub"
    /\ res = NoResult
    /\ res' = [fn |-> "isGithub", url |-> isGithub(RemotesText(inp.remotes))]
    /\ UNCHANGED <<mainVars, inp>>

NextRemotes == ApplyIsGithub

SpecRemotes == InitRemotes /\ [][NextRemotes]_vars

\* C18: isGithub returns https://github.com/<owner>/<repo> of the first remote
\* on github.com, in the SSH and in the HTTPS form and without the .git suffix,
\* and the empty string when no remote is on github.com.
C18_FirstGithubRemote ==
    (inp.fn = "isGithub" /\ res # NoResult) =>
        LET gh == {k \in 1..Len(inp.remotes) : inp.remotes[k].host = Str_github_com}
        IN  IF gh = {}
            THEN res.url = <<>>
            ELSE LET r == inp.remotes[CHOOSE k \in gh : \A j \in gh : k <= j]
                 IN  res.url = Str_https_github \o r.owner \o Str_slash \o r.repo

----------------------------------------------------------------------------
(* The fragments of linkify *)

\* the "#<digits>" tokens of s as <<first, last>>: a "#" and every digit that
\* follows it, at least one
IssueTokens(s) ==
    {t \in (1..Len(s)) \X (1..Len(s)) :
        /\ t[1] < t[2]
        /\ s[t[1]] = "#"
        /\ \A m \in (t[1] + 1)..t[2] : s[m] \in Digits
        /\ (t[2] = Len(s) \/ s[t[2] + 1] \notin Digits)}

\* the fragments the claim describes for s from position `from` on: the text
\* before each token as a commit-permalink fragment, the token as a blue
\* fragment linking to its pull URL, and the text after the last token
RECURSIVE FragmentsFrom(_, _, _, _)
FragmentsFrom(s, from, github, hash) ==
    LET rest == {t \in IssueTokens(s) : t[1] >= from}
    IN  IF rest = {}
        THEN <<link(github \o Str_commit \o hash, SubSeq(s, from, Len(s)))>>
        ELSE LET t == CHOOSE a \in rest : \A b \in rest : a[1] <= b[1]
             IN  <<link(github \o Str_commit \o hash, SubSeq(s, from, t[1] - 1)),
                   link(github \o Str_pull \o SubSeq(s, t[1] + 1, t[2]),
                        BLUE \o SubSeq(s, t[1], t[2]) \o RESET)>>
                     \o FragmentsFrom(s, t[2] + 1, github, hash)

\* C15: for a subject with k "#<digits>" tokens linkify returns exactly 2k + 1
\* hyperlink fragments, left to right: commit-permalink fragments around the
\* text between the tokens alternate with blue fragments linking to
\* baseUrl/pull/<number>; with k = 0 the subject is one commit-permalink
\* fragment.
C15_LinkifyFragments ==
    LinkifyDone =>
        LET k  == Cardinality(IssueTokens(inp.subject))
            fr == FragmentsFrom(inp.subject, 1, inp.github, inp.hash)
        IN  /\ Len(fr) = 2 * k + 1
            /\ res.s = Concat(fr)
            /\ Cardinality(OSC8At(res.s)) = 2 * (2 * k + 1)

\* the subject "a#1)" was split into the text before the token, the token and
\* the text after it
C15_Witness ==
    /\ LinkifyDone
    /\ inp.subject = <<"a", "#", "1", ")">>
    /\ inp.github = Str_gh
    /\ inp.hash = Str_hash1
    /\ res.s = link(Str_gh \o Str_commit \o Str_hash1, <<"a">>)
                  \o link(Str_gh \o Str_pull \o <<"1">>, BLUE \o <<"#", "1">> \o RESET)
                  \o link(Str_gh \o Str_commit \o Str_hash1, <<")">>)

----------------------------------------------------------------------------
(* The width show tracks, and the failures of makeDiffGraph *)

\* C19: at each cutoff check of show the lineWidth accumulator is the printable
\* width of what the row holds so far: at the first check the status, graph,
\* name and date columns, at the second the author column too.
C19_LineWidthIsPrintedWidth ==
    \A i \in 1..Len(rows) :
        /\ rows[i].lw1 = Len(Visible(rows[i].pre1))
        /\ rows[i].cut # 1 => rows[i].lw2 = Len(Visible(rows[i].pre2))

\* C20: makeDiffGraph returns a string for every entry and every width,
\* 0 and negative widths included, and never aborts the run.
C20_MakeDiffGraphTotal ==
    GraphDone => ~res.panic

----------------------------------------------------------------------------
(* the size of a scaled graph *)

GlyphTotal(s) == CountOf(s, "+") + CountOf(s, "-")

IsScaledCase ==
    /\ GraphDone
    /\ inp.diffSum # <<>>
    /\ inp.width >= 1
    /\ inp.diffSum[1] + inp.diffSum[2] > inp.width

\* C21: for every width >= 1 and non-negative (added, removed) with
\* added + removed > width, the scaled graph holds at most width + 1 glyphs
\* ("+" and "-" together).
C21_ScaledGraphSlack ==
    IsScaledCase => /\ ~res.panic
                    /\ GlyphTotal(res.s) <= inp.width + 1

\* a scaled graph that uses the one glyph of slack
C21_Witness ==
    /\ IsScaledCase
    /\ ~res.panic
    /\ inp.width >= 2
    /\ GlyphTotal(res.s) = inp.width + 1

----------------------------------------------------------------------------
(* the three aggregators of main.go 138-140 run in every order on one
   listing, then the rest of main *)

AggListings ==
    {<<NewFile(Str_a, FALSE, TRUE)>>,
     <<NewFile(Str_a, FALSE, FALSE), NewFile(Str_d, TRUE, FALSE)>>,
     <<NewFile(Str_git, TRUE, FALSE), NewFile(Str_d, TRUE, FALSE)>>}

Aggregators == {"fileStatus", "parseGitLog", "parseDiffStat"}

InitAggregate ==
    /\ pc = "aggregate"
    /\ argv = <<>>
    /\ diffWidth = DefaultDiffWidth
    /\ dir = Str_dot
    /\ files \in AggListings
    /\ maxWidth = 0
    /\ githubUrl = <<>>
    /\ stdout = <<>>
    /\ out = <<>>
    /\ rows = <<>>
    /\ \E status \in StatusTexts, diffStat \in DiffTexts,
          logs \in [1..Len(files) -> LogRecords] :
        inp = [fn |-> "aggregate", files |-> files, status |-> status,
               curdir |-> Str_dot, logs |-> logs, diffStat |-> diffStat]
    /\ res = [fn |-> "aggregate", done |-> <<>>]

Ran(name) == \E k \in 1..Len(res.done) : res.done[k] = name

\* the position after one more aggregator returned
AfterAggregator == IF Len(res.done) = 2 THEN "graph" ELSE "aggregate"

RunFileStatus ==
    /\ pc = "aggregate"
    /\ ~Ran("fileStatus")
    /\ IF fileStatusFatal(inp.status, inp.curdir)
       THEN pc' = "fatal" /\ files' = files
       ELSE pc' = AfterAggregator /\ files' = fileStatus(inp.status, files, inp.curdir)
    /\ res' = [res EXCEPT !.done = Append(@, "fileStatus")]
    /\ UNCHANGED <<argv, diffWidth, dir, maxWidth, githubUrl, stdout, out, rows, inp>>

RunParseGitLog ==
    /\ pc = "aggregate"
    /\ ~Ran("parseGitLog")
    /\ IF parseGitLogFatal(files, inp.logs)
       THEN pc' = "fatal" /\ files' = files
       ELSE pc' = AfterAggregator /\ files' = parseGitLog(files, inp.logs)
    /\ res' = [res EXCEPT !.done = Append(@, "parseGitLog")]
    /\ UNCHANGED <<argv, diffWidth, dir, maxWidth, githubUrl, stdout, out, rows, inp>>

RunParseDiffStat ==
    /\ pc = "aggregate"
    /\ ~Ran("parseDiffStat")
    /\ pc' = AfterAggregator
    /\ files' = parseDiffStat(inp.diffStat, files)
    /\ res' = [res EXCEPT !.done = Append(@, "parseDiffStat")]
    /\ UNCHANGED <<argv, diffWidth, dir, maxWidth, githubUrl, stdout, out, rows, inp>>

NextAggregate ==
    \/ RunFileStatus
    \/ RunParseGitLog
    \/ RunParseDiffStat
    \/ MakeDiffGraphs
    \/ Columns
    \/ PrintBranch
    \/ GitRemotes
    \/ ShowRow
    \/ ShowHostnameFails
    \/ ShowReturn

SpecAggregate == InitAggregate /\ [][NextAggregate]_vars

FileFields == DOMAIN NewFile(<<>>, FALSE, FALSE)

OwnFields(name) ==
    CASE name = "fileStatus" -> {"status"}
      [] name = "parseGitLog" -> {"hash", "lastModified", "author", "authorEmail", "message"}
      [] name = "parseDiffStat" -> {"diffSum"}

\* the records main's own order (status, log, diff) leaves
AggMainOrder ==
    parseDiffStat(inp.diffStat,
        parseGitLog(fileStatus(inp.status, inp.files, inp.curdir), inp.logs))

\* C22: a step of an aggregator changes only that aggregator's fields of the
\* entries (fileStatus: status; parseGitLog: hash, date, author, author email,
\* subject; parseDiffStat: the diff totals), a step of show changes no field,
\* and whatever order the three aggregators ran in, the records they leave
\* are the ones main's order leaves.
C22_DisjointFields ==
    [][ /\ pc = "aggregate" =>
            /\ Len(files') = Len(files)
            /\ \A i \in 1..Len(files) :
                 \A k \in FileFields \ OwnFields(res'.done[Len(res'.done)]) :
                    files'[i][k] = files[i][k]
        /\ pc = "show" => files' = files
        /\ (pc = "aggregate" /\ pc' = "graph") => files' = AggMainOrder
      ]_vars

\* show returned after the aggregators ran in the reverse of main's order on
\* an entry that got a status, a history and diff totals
C22_Witness ==
    /\ pc = "done"
    /\ inp.fn = "aggregate"
    /\ res.done = <<"parseDiffStat", "parseGitLog", "fileStatus">>
    /\ Len(rows) = Len(files)
    /\ \E i \in 1..Len(files) :
        /\ files[i].status # <<>>
        /\ files[i].hash # <<>>
        /\ files[i].diffSum # <<>>

----------------------------------------------------------------------------
(* the issue links of a row *)

\* the target of the hyperlink sequence that starts at s[i]
LinkTarget(s, i) ==
    LET j == CHOOSE k \in (i + 5)..Len(s) :
                /\ s[k] = ESC
                /\ \A m \in (i + 5)..(k - 1) : s[m] # ESC
    IN  SubSeq(s, i + 5, j - 1)

\* the numbers <n> of the links to github/pull/<n> in s
PullNumbers(s, github) ==
    LET pull == github \o Str_pull
    IN  {SubSeq(u, Len(pull) + 1, Len(u)) :
            u \in {LinkTarget(s, i) : i \in {k \in OSC8At(s) : HasPrefix(LinkTarget(s, k), pull)}}}

\* the numbers of the complete "#<digits>" tokens of a subject
TokenNumbers(subject) ==
    {SubSeq(subject, t[1] + 1, t[2]) : t \in IssueTokens(subject)}

\* C23: every link to baseUrl/pull/<n> in a row that show emits has "#<n>" as
\* a complete issue token of the entry's full commit subject, also when the
\* subject is clipped to the remaining width.
C23_IssueLinksAreWholeTokens ==
    \A i \in 1..Len(rows) :
        githubUrl # <<>> =>
            PullNumbers(rows[i].toOut, githubUrl) \subseteq TokenNumbers(files[i].message)

----------------------------------------------------------------------------
(* where show writes *)

\* C24: show writes everything to the writer passed as `out`: each emitted row
\* is one line on `out`, ended by exactly one line terminator written to
\* `out`, also when the row is cut off at either width check, and nothing
\* goes to os.Stdout when `out` is another writer.
C24_RowsEndOnOut ==
    \A i \in 1..Len(rows) :
        /\ rows[i].toStdout = <<>>
        /\ CountOf(rows[i].toOut, "\n") = 1
        /\ rows[i].toOut[Len(rows[i].toOut)] = "\n"

====
